---------------------------- MODULE Spec2Model ----------------------------
(***************************************************************************)
(* Steady-state binding equations of the site's two posts:                 *)
(*   - posts/dimerization-kinetics/index.ipynb: the closed form sympy      *)
(*     returns for P1 + P1 <=> P2, its lambdified evaluation and the       *)
(*     solara Page widget that shows it for the PT and kD input fields;    *)
(*   - the smFRET post (P + L <=> PL): th_P = 1/(r+1), th_PL = 1 - th_P.   *)
(*                                                                         *)
(* Numbers.  The code evaluates the formulas with numpy on IEEE doubles.   *)
(* Here a finite number is the exact real a + b*sqrt(r) with a, b, r       *)
(* rational (r >= 0), which is closed under every operation the formulas   *)
(* apply to the inputs drawn below; the non-finite outcomes numpy produces *)
(* (nan for the square root of a negative number, inf for a division by    *)
(* zero) are kept as kinds.  The rounding of doubles is not represented.   *)
(* Sums and products are formed within one field only (one radical);       *)
(* numbers of two fields are compared, never added.                        *)
(***************************************************************************)
EXTENDS Integers, Sequences, FiniteSets

VARIABLES PT, kD, ans,              \* the Page component: reactive fields, result
          L0, K_d, r, th_P, th_PL,  \* the smFRET post: inputs, ratio, fractions
          raised,                   \* the exception the last evaluation ended with
          PT_values, df,            \* the sweep cell: sample points, dataframe
          sweep_range,              \* the arguments logspace was last given
          kept,                     \* an earlier run of the sweep cell, kept to compare
          n_P1, n_P2,               \* the scheme P1 + P1 <=> P2: monomers, dimers in the tube
          n_PT,                     \* the protomers put in the tube
          pc, call,                 \* concurrent runs: statement reached, what is run
          frames,                   \* the name ans in each scope
          ret,                      \* what each run displayed at its end
          writer, reads             \* who wrote each global last, who read whose write

vars == <<PT, kD, ans, L0, K_d, r, th_P, th_PL, raised,
          PT_values, df, sweep_range, kept, n_P1, n_P2, n_PT,
          pc, call, frames, ret, writer, reads>>
pageVars == <<PT, kD, ans>>
heteroVars == <<L0, K_d, r, th_P, th_PL>>
sweepVars == <<PT_values, df, sweep_range, kept>>
schemeVars == <<n_P1, n_P2, n_PT>>
callVars == <<pc, call, frames, ret, writer, reads>>

----------------------------------------------------------------------------
(* Bounds of the input sets.                                               *)
MaxNum == 10
MaxNeg == 1
MaxDen == 2
MaxLig == 3
NumPoints == 2
MaxRate == 2
MaxSamples == 5
MaxEdits == 2
MaxCurve == 16
MaxMonomers == 12
MaxDimers == 8
NumProcs == 2
MaxSite == 2

----------------------------------------------------------------------------
(* Rationals n/d in lowest terms, d > 0.                                   *)
Abs(x) == IF x < 0 THEN -x ELSE x

RECURSIVE GCD(_, _)
GCD(x, y) == IF y = 0 THEN x ELSE GCD(y, x % y)

Rat(n, d) ==
    LET g == GCD(Abs(n), Abs(d))
        s == IF d < 0 THEN -1 ELSE 1
    IN  [n |-> (s * n) \div g, d |-> (s * d) \div g]

RInt(i) == [n |-> i, d |-> 1]
\* sums over the least common denominator and products cancelled crosswise,
\* which keeps the intermediate integers small
RAdd(x, y) ==
    LET g == GCD(x.d, y.d)
    IN  Rat(x.n * (y.d \div g) + y.n * (x.d \div g), (x.d \div g) * y.d)
RSub(x, y) == RAdd(x, [n |-> -y.n, d |-> y.d])
RMul(x, y) ==
    LET g1 == GCD(Abs(x.n), y.d)
        g2 == GCD(Abs(y.n), x.d)
    IN  IF x.n = 0 \/ y.n = 0 THEN RInt(0)
        ELSE Rat((x.n \div g1) * (y.n \div g2), (x.d \div g2) * (y.d \div g1))
RDiv(x, y) == RMul(x, Rat(y.d, y.n))
RSign(x) == IF x.n > 0 THEN 1 ELSE IF x.n < 0 THEN -1 ELSE 0
RAbs(x) == [n |-> Abs(x.n), d |-> x.d]

\* a/b < c/d for b, d > 0, by the continued fractions of the two sides: no
\* product larger than its operands is formed
RECURSIVE CFLt(_, _, _, _)
CFLt(a, b, c, d) ==
    LET fa == a \div b
        fc == c \div d
        ra == a - fa * b
        rc == c - fc * d
    IN  IF fa # fc THEN fa < fc
        ELSE IF ra = 0 THEN rc > 0
        ELSE IF rc = 0 THEN FALSE
        ELSE CFLt(d, rc, b, ra)

RLt(x, y) == CFLt(x.n, x.d, y.n, y.d)

----------------------------------------------------------------------------
(* Floats: kind "fin" is the real a + b*sqrt(r); "nan", "pinf", "ninf" are *)
(* the IEEE specials (their a, b, r are zero).                             *)
Fin(a, b, rad) == [k |-> "fin", a |-> a, b |-> b, r |-> rad]
Special(kind) == [k |-> kind, a |-> RInt(0), b |-> RInt(0), r |-> RInt(0)]
NaN == Special("nan")
PInf == Special("pinf")
NInf == Special("ninf")
FRat(q) == Fin(q, RInt(0), RInt(0))
FInt(i) == FRat(RInt(i))

\* a power of two times b whose square is at least n
RECURSIVE RootBound(_, _)
RootBound(n, b) == IF b * b >= n THEN b ELSE RootBound(n, 2 * b)

\* the largest k with k*k dividing n
SquareFactor(n) ==
    LET squares == {k \in 1..RootBound(n, 1) : n % (k * k) = 0}
    IN  CHOOSE k \in squares : \A j \in squares : j <= k

\* a + b*sqrt(rad) with the squares taken out of the radical, so that equal
\* numbers of one field get equal radicands: sqrt(729) is 27, sqrt(8) is
\* 2*sqrt(2)
Root(a, b, rad) ==
    IF rad.n = 0 \/ b.n = 0 THEN FRat(a)
    ELSE LET kn == SquareFactor(rad.n)
             kd == SquareFactor(rad.d)
             m == [n |-> rad.n \div (kn * kn), d |-> rad.d \div (kd * kd)]
             c == RMul(b, Rat(kn, kd))
         IN  IF m.n = 1 /\ m.d = 1 THEN FRat(RAdd(a, c)) ELSE Fin(a, c, m)

\* the radical part of x is absent
IsRational(x) == x.b.n = 0 \/ x.r.n = 0

\* sign of the finite number a + b*sqrt(r)
Sign(x) ==
    LET sa == RSign(x.a)
        sb == IF IsRational(x) THEN 0 ELSE RSign(x.b)
        q == RAbs(RDiv(x.a, x.b))    \* |a| against |b|*sqrt(r): q = |a/b|
        rq == RDiv(x.r, q)           \* against sqrt(r), that is q against r/q
    IN  IF sb = 0 THEN sa
        ELSE IF sa = 0 \/ sa = sb THEN sb
        ELSE IF RLt(rq, q) THEN sa
        ELSE IF RLt(q, rq) THEN sb
        ELSE 0

\* sign of any float but nan: -1, 0, 1
FSign(x) == IF x.k = "pinf" THEN 1 ELSE IF x.k = "ninf" THEN -1 ELSE Sign(x)

Radicand(x, y) == IF IsRational(x) THEN y.r ELSE x.r

FNeg(x) ==
    IF x.k = "fin" THEN Fin(RSub(RInt(0), x.a), RSub(RInt(0), x.b), x.r)
    ELSE IF x.k = "pinf" THEN NInf
    ELSE IF x.k = "ninf" THEN PInf
    ELSE NaN

FAdd(x, y) ==
    IF x.k = "nan" \/ y.k = "nan" THEN NaN
    ELSE IF x.k = "fin" /\ y.k = "fin"
         THEN Fin(RAdd(x.a, y.a),
                  RAdd(IF IsRational(x) THEN RInt(0) ELSE x.b,
                       IF IsRational(y) THEN RInt(0) ELSE y.b),
                  Radicand(x, y))
    ELSE IF x.k = "fin" THEN y
    ELSE IF y.k = "fin" \/ x.k = y.k THEN x
    ELSE NaN                                   \* inf + -inf

FSub(x, y) == FAdd(x, FNeg(y))

FMul(x, y) ==
    IF x.k = "nan" \/ y.k = "nan" THEN NaN
    ELSE IF x.k = "fin" /\ y.k = "fin"
         THEN IF IsRational(x) \/ IsRational(y) \/ x.r = y.r
              THEN LET rad == Radicand(x, y)
                       xb == IF IsRational(x) THEN RInt(0) ELSE x.b
                       yb == IF IsRational(y) THEN RInt(0) ELSE y.b
                   IN  Fin(RAdd(RMul(x.a, y.a), RMul(RMul(xb, yb), rad)),
                           RAdd(RMul(x.a, yb), RMul(y.a, xb)),
                           rad)
              \* two pure radicals: sqrt(p)*sqrt(q) = sqrt(p*q)
              ELSE Root(RInt(0), RMul(x.b, y.b), RMul(x.r, y.r))
    ELSE IF FSign(x) = 0 \/ FSign(y) = 0 THEN NaN     \* 0 * inf
    ELSE IF FSign(x) = FSign(y) THEN PInf
    ELSE NInf

\* the conjugate a - b*sqrt(r) and the norm a^2 - b^2*r of a finite number
Conjugate(x) == Fin(x.a, RSub(RInt(0), x.b), x.r)
Norm(x) == RSub(RMul(x.a, x.a), RMul(RMul(x.b, x.b), x.r))

\* x / y; a divisor with a radical part is made rational by its conjugate
FDiv(x, y) ==
    IF x.k = "nan" \/ y.k = "nan" THEN NaN
    ELSE IF y.k # "fin"
         THEN IF x.k = "fin" THEN FInt(0) ELSE NaN    \* fin/inf = 0, inf/inf
    ELSE IF Sign(y) = 0
         THEN IF FSign(x) = 0 THEN NaN                \* 0/0
              ELSE IF FSign(x) > 0 THEN PInf ELSE NInf
    ELSE IF x.k # "fin"
         THEN IF FSign(x) = Sign(y) THEN PInf ELSE NInf
    ELSE IF IsRational(y)
         THEN Fin(RDiv(x.a, y.a), RDiv(x.b, y.a), x.r)
    ELSE IF Norm(y).n = 0                             \* y = 2a, r a square
         THEN LET d == RMul(RInt(2), y.a)
              IN  Fin(RDiv(x.a, d), RDiv(x.b, d), x.r)
    ELSE LET t == FMul(x, Conjugate(y))
         IN  Fin(RDiv(t.a, Norm(y)), RDiv(t.b, Norm(y)), t.r)

\* numpy.sqrt of a rational or special x
FSqrt(x) ==
    IF x.k = "nan" \/ x.k = "ninf" THEN NaN
    ELSE IF x.k = "pinf" THEN PInf
    ELSE IF RSign(x.a) < 0 THEN NaN
    ELSE Root(RInt(0), RInt(1), x.a)

\* the sign of x - y for finite x and y; with radicals of two fields,
\* x.a - y.a + x.b*sqrt(x.r) is compared with y.b*sqrt(y.r) by the signs and
\* then by the squares
Compare(x, y) ==
    IF IsRational(x) \/ IsRational(y) \/ x.r = y.r THEN Sign(FSub(x, y))
    ELSE LET left == Fin(RSub(x.a, y.a), x.b, x.r)
             sl == Sign(left)
             sr == RSign(y.b)
             squares == FSub(FMul(left, left),
                             FRat(RMul(RMul(y.b, y.b), y.r)))
         IN  IF sl > sr THEN 1
             ELSE IF sl < sr THEN -1
             ELSE sl * Sign(squares)

\* comparisons; every comparison with nan is false
FEq(x, y) ==
    /\ x.k # "nan" /\ y.k # "nan"
    /\ IF x.k = "fin" /\ y.k = "fin" THEN Compare(x, y) = 0 ELSE x.k = y.k
FLt(x, y) ==
    /\ x.k # "nan" /\ y.k # "nan"
    /\ IF x.k = "fin" /\ y.k = "fin" THEN Compare(y, x) > 0
       ELSE x.k # y.k /\ (x.k = "ninf" \/ y.k = "pinf")
FLe(x, y) == FLt(x, y) \/ FEq(x, y)

----------------------------------------------------------------------------
(* posts/dimerization-kinetics: the solution sympy returns for             *)
(*   -2*k_on*P1*P1 + 2*k_off*P2 = 0,  P1 + 2*P2 - PT = 0,  k_off/k_on = kD *)
(* and its lambdified evaluation.                                          *)

\* a slip in the discriminant: 4*P_T for 8*P_T
sol_root_slip(P_T, k_D) ==
    FMul(FSqrt(k_D), FSqrt(FAdd(FMul(FInt(4), P_T), k_D)))

\* the radical without its factor sqrt(k_D)
sol_root_no_kD(P_T, k_D) == FSqrt(FAdd(FMul(FInt(8), P_T), k_D))

\* sqrt(k_D)*sqrt(8*P_T + k_D), the radical both entries of sol[0] share
sol_root(P_T, k_D) ==
    FMul(FSqrt(k_D), FSqrt(FAdd(FMul(FInt(8), P_T), k_D)))

\* the root of the quadratic that sympy drops for positive symbols
sol_P1_negative_root(P_T, k_D) ==
    FSub(FNeg(FDiv(sol_root(P_T, k_D), FInt(4))), FDiv(k_D, FInt(4)))

\* a slip in the last coefficient: k_D/8 for k_D/4
sol_P1_slip(P_T, k_D) ==
    FSub(FDiv(sol_root(P_T, k_D), FInt(4)), FDiv(k_D, FInt(8)))

\* a slip in the first denominator: 8 for 4
sol_P1_eighth(P_T, k_D) ==
    FSub(FDiv(sol_root(P_T, k_D), FInt(8)), FDiv(k_D, FInt(4)))

\* sol[0][P1] = sqrt(k_D)*sqrt(8*P_T + k_D)/4 - k_D/4
sol_P1(P_T, k_D) ==
    FSub(FDiv(sol_root(P_T, k_D), FInt(4)), FDiv(k_D, FInt(4)))

\* a slip in the last sign: - k_D/8 for + k_D/8
sol_P2_slip(P_T, k_D) ==
    FSub(FSub(FDiv(P_T, FInt(2)), FDiv(sol_root(P_T, k_D), FInt(8))),
         FDiv(k_D, FInt(8)))

\* a slip in the sign of the radical: + for -
sol_P2_plus_root(P_T, k_D) ==
    FAdd(FAdd(FDiv(P_T, FInt(2)), FDiv(sol_root(P_T, k_D), FInt(8))),
         FDiv(k_D, FInt(8)))

\* sol[0][P2] = P_T/2 - sqrt(k_D)*sqrt(8*P_T + k_D)/8 + k_D/8
sol_P2(P_T, k_D) ==
    FAdd(FSub(FDiv(P_T, FInt(2)), FDiv(sol_root(P_T, k_D), FInt(8))),
         FDiv(k_D, FInt(8)))

solve_for == {"P_1", "P_2"}

\* the two generated functions under each other's key
lambdas_swapped(s, P_T, k_D) ==
    IF s = "P_1" THEN sol_P2(P_T, k_D) ELSE sol_P1(P_T, k_D)

\* lambdas[s](P_T, k_D): no check of the arguments, numpy evaluates sol[0][s]
lambdas(s, P_T, k_D) == IF s = "P_1" THEN sol_P1(P_T, k_D) ELSE sol_P2(P_T, k_D)

\* a generated function that would check its arguments first
lambdas_raises_checked(P_T, k_D) ==
    IF FLt(FInt(0), P_T) /\ FLt(FInt(0), k_D) THEN "none" ELSE "InvalidInput"

\* the exception a call lambdas[s](P_T, k_D) ends with: the generated function
\* holds the formula alone, and numpy.sqrt of a negative number warns and
\* returns nan
lambdas_raises(P_T, k_D) == "none"

\* the dissociation term written without its rate: 2*P2 for 2*k_off*P2
NetRate_no_k_off(k_on, k_off, P1, P2) ==
    FAdd(FMul(FMul(FMul(FInt(-2), k_on), P1), P1), FMul(FInt(2), P2))

\* the left-hand side of the steady-state equation sympy is given
NetRate(k_on, k_off, P1, P2) ==
    FAdd(FMul(FMul(FMul(FInt(-2), k_on), P1), P1), FMul(FMul(FInt(2), k_off), P2))

\* the left-hand side of the mass balance sympy is given
MassBalance(P1, P2, P_T) == FSub(FAdd(P1, FMul(FInt(2), P2)), P_T)

----------------------------------------------------------------------------
(* The solara component Page: two reactive fields and the result rendered  *)
(* from them.                                                              *)
InitPT == 10
InitKD == 1

\* what a user can type into an InputFloat field
InputValues == {FRat(Rat(n, d)) : n \in (-MaxNeg)..MaxNum, d \in 1..MaxDen}

\* the body of Page: ans = {k: ld(PT.value, kD.value) for k, ld in lambdas.items()}
Render(pt, kd) == [s \in solve_for |-> lambdas(s, pt, kd)]

PageInit ==
    /\ PT = FInt(InitPT)
    /\ kD = FInt(InitKD)
    /\ ans = Render(PT, kD)
    /\ raised = lambdas_raises(PT, kD)

\* an edit of the PT field that sets the value and does not render again
SetPT_no_render(v) ==
    /\ PT' = v
    /\ UNCHANGED <<kD, ans, raised>>
    /\ UNCHANGED <<heteroVars, sweepVars, schemeVars, callVars>>

\* an edit of the PT field sets the reactive value and Page renders again
SetPT(v) ==
    /\ PT' = v
    /\ kD' = kD
    /\ ans' = Render(PT', kD')
    /\ raised' = lambdas_raises(PT', kD')
    /\ UNCHANGED <<heteroVars, sweepVars, schemeVars, callVars>>

\* an edit of the kD field
SetKD(v) ==
    /\ kD' = v
    /\ PT' = PT
    /\ ans' = Render(PT', kD')
    /\ raised' = lambdas_raises(PT', kD')
    /\ UNCHANGED <<heteroVars, sweepVars, schemeVars, callVars>>

----------------------------------------------------------------------------
(* The smFRET post: fractions of P and PL from the ratio r = [L0]/Kd.      *)
Ligands == {FRat(Rat(n, d)) : n \in (-MaxNeg)..MaxLig, d \in 1..MaxDen}

\* the ratio taken the wrong way round: K_d/[L_0]
ratio_inverted(L, Kd) == FDiv(Kd, L)

\* r = [L_0]/K_d
ratio(L, Kd) == FDiv(L, Kd)

\* the bound fraction r/(r+1) taken for the free one
theta_P_bound(rr) == FDiv(rr, FAdd(rr, FInt(1)))

\* the parentheses dropped: 1/r + 1
theta_P_unparenthesised(rr) == FAdd(FDiv(FInt(1), rr), FInt(1))

\* th_P = 1 / (r + 1)
theta_P(rr) == FDiv(FInt(1), FAdd(rr, FInt(1)))

\* the operands swapped: th_P - 1
theta_PL_swapped(thP) == FSub(thP, FInt(1))

\* th_PL = 1 - th_P
theta_PL(thP) == FSub(FInt(1), thP)

\* array expressions that would check their inputs first
fractions_raises_checked(L, Kd) ==
    IF FLt(FInt(0), Kd) /\ \A i \in DOMAIN L : FLt(FInt(0), L[i])
    THEN "none" ELSE "InvalidInput"

\* the exception the array expressions end with: numpy divides by zero with a
\* warning and the result inf or nan
fractions_raises(L, Kd) == "none"

HeteroIdle ==
    /\ r = << >>
    /\ th_P = << >>
    /\ th_PL = << >>

HeteroInit ==
    /\ L0 \in [1..NumPoints -> Ligands]
    /\ K_d \in Ligands
    /\ HeteroIdle

\* the cell computes the whole arrays, element by element
Fractions ==
    /\ r = << >>
    /\ r' = [i \in DOMAIN L0 |-> ratio(L0[i], K_d)]
    /\ th_P' = [i \in DOMAIN L0 |-> theta_P(r'[i])]
    /\ th_PL' = [i \in DOMAIN L0 |-> theta_PL(th_P'[i])]
    /\ raised' = fractions_raises(L0, K_d)
    /\ UNCHANGED <<L0, K_d>>
    /\ UNCHANGED <<pageVars, sweepVars, schemeVars, callVars>>

----------------------------------------------------------------------------
(* The cells that evaluate the formulas over log-spaced values: the sweep  *)
(* of the dimerization post (PT_values, df) and the fractions of the       *)
(* smFRET post (r, th_P, th_PL).  The posts take 100 samples; the samples  *)
(* between the end points are then irrational powers of ten, so the model  *)
(* takes the numbers of samples for which each sample is a whole power.    *)
SweepStart == -1
SweepStop == 3
SweepKD == 1
FractionsStart == -2
FractionsStop == 2

RECURSIVE Pow10(_)
Pow10(e) ==
    IF e = 0 THEN RInt(1)
    ELSE IF e > 0 THEN RMul(RInt(10), Pow10(e - 1))
    ELSE RDiv(Pow10(e + 1), RInt(10))

\* the numbers of samples modelled for logspace(start, stop, num)
SampleCounts(start, stop) ==
    {n \in 2..MaxSamples : (stop - start) % (n - 1) = 0}

\* samples evenly spaced on a linear scale between the same end points
logspace_linear(start, stop, num) ==
    [i \in 1..num |->
        FRat(RAdd(Pow10(start),
                  RMul(Rat(i - 1, num - 1), RSub(Pow10(stop), Pow10(start)))))]

\* the samples np.logspace yields with endpoint=False: the step is
\* (stop - start)/num and the stop is left out
logspace_no_endpoint(start, stop, num) ==
    [i \in 1..num |->
        FRat(Pow10(start + (i - 1) * ((stop - start) \div num)))]

\* np.logspace(start, stop, num, endpoint=True):
\* 10 ** (start + i*step) for i = 0..num-1, step = (stop - start)/(num - 1)
logspace(start, stop, num) ==
    [i \in 1..num |->
        FRat(Pow10(start + (i - 1) * ((stop - start) \div (num - 1))))]

\* the total protomer P1 + 2*P2 taken for the total molarity
ld_total_protomer(P_T, k_D) ==
    FAdd(sol_P1(P_T, k_D), FMul(FInt(2), sol_P2(P_T, k_D)))

\* ld_total = sp.lambdify(inputs, sol[0][P1] + sol[0][P2]): total molarity
ld_total(P_T, k_D) == FAdd(sol_P1(P_T, k_D), sol_P2(P_T, k_D))

\* the Page's kD field read where the cell passes the literal 1
sweep_kD_from_page == kD

\* the second argument of ld(PT_values, 1) and ld_total(PT_values, 1)
sweep_kD == FInt(SweepKD)

\* the columns holding the concentrations, the division left out
DataFrame_unnormalised(values) ==
    [c \in {"PT"} \cup solve_for |->
        IF c = "PT" THEN values
        ELSE [i \in DOMAIN values |-> lambdas(c, values[i], sweep_kD)]]

\* ans = {k: ld(PT_values, 1) / ld_total(PT_values, 1) ...}, as the columns
\* of df = pd.DataFrame(dict(PT=PT_values) | {k.name: v ...})
DataFrame(values) ==
    [c \in {"PT"} \cup solve_for |->
        IF c = "PT" THEN values
        ELSE [i \in DOMAIN values |->
                 FDiv(lambdas(c, values[i], sweep_kD),
                      ld_total(values[i], sweep_kD))]]

NoRange == [start |-> 0, stop |-> 0, num |-> 0]
NotKept == [range |-> NoRange, df |-> << >>]

SweepIdle ==
    /\ PT_values = << >>
    /\ df = << >>
    /\ sweep_range = NoRange
    /\ kept = NotKept

\* the ranges the two posts sweep over
SweepRanges == {<<SweepStart, SweepStop>>, <<FractionsStart, FractionsStop>>}

\* the values the Page's kD field is set to between runs of the cells
SweepEdits == {FInt(n) : n \in 1..MaxEdits}

\* the sweep cell runs to its end
Sweep(start, stop, num) ==
    /\ PT_values' = logspace(start, stop, num)
    /\ df' = DataFrame(PT_values')
    /\ sweep_range' = [start |-> start, stop |-> stop, num |-> num]
    /\ \/ kept' = kept
       \/ kept = NotKept /\ kept' = [range |-> sweep_range', df |-> df']
    /\ UNCHANGED <<pageVars, heteroVars, raised, schemeVars, callVars>>

\* the fractions cell runs to its end
FractionsCell(num) ==
    /\ r' = logspace(FractionsStart, FractionsStop, num)
    /\ th_P' = [i \in DOMAIN r' |-> theta_P(r'[i])]
    /\ th_PL' = [i \in DOMAIN r' |-> theta_PL(th_P'[i])]
    /\ raised' = "none"
    /\ UNCHANGED <<L0, K_d>>
    /\ UNCHANGED <<pageVars, sweepVars, schemeVars, callVars>>

----------------------------------------------------------------------------
(* The kinetic scheme P1 + P1 <=> P2 of the dimerization post, as events   *)
(* on the molecules in the tube.  The coefficients are those of the two    *)
(* rate equations: d[P1]/dt = -2 kon [P1][P1] + 2 koff [P2] and            *)
(* d[P2]/dt = kon [P1][P1] - koff [P2].                                    *)

\* the monomer's rate equation with the factors 2 left out
dP1_unit(assoc, dissoc) == -assoc + dissoc

\* the change of the number of monomers by assoc association events and
\* dissoc dissociation events
dP1(assoc, dissoc) == -2 * assoc + 2 * dissoc

\* the change of the number of dimers by the same events
dP2(assoc, dissoc) == assoc - dissoc

SchemeIdle == n_P1 = 0 /\ n_P2 = 0 /\ n_PT = 0

\* the tube is filled with monomers and dimers
SchemeInit ==
    /\ n_P1 \in 0..MaxMonomers
    /\ n_P2 \in 0..MaxDimers
    /\ n_PT = n_P1 + 2 * n_P2

\* two monomers meet and form a dimer
Association ==
    /\ n_P1 >= 2
    /\ n_P1' = n_P1 + dP1(1, 0)
    /\ n_P2' = n_P2 + dP2(1, 0)
    /\ UNCHANGED <<n_PT, pageVars, heteroVars, raised, sweepVars, callVars>>

\* a dimer falls apart into two monomers
Dissociation ==
    /\ n_P2 >= 1
    /\ n_P1' = n_P1 + dP1(0, 1)
    /\ n_P2' = n_P2 + dP2(0, 1)
    /\ UNCHANGED <<n_PT, pageVars, heteroVars, raised, sweepVars, callVars>>

----------------------------------------------------------------------------
(* Runs of Page and of the two cells from several call sites at once, one  *)
(* statement at a time.  Page keeps its fields (use_reactive) and its ans  *)
(* in its own frame; the cells assign the globals of their notebook.       *)
Procs == 1..NumProcs

\* scope 0 is the module namespace of the notebook, scope p the frame of run p
Scopes == 0..NumProcs
Module == CHOOSE s \in Scopes : s \notin Procs

Globals == {"PT_values", "ans", "df", "r", "th_P", "th_PL"}

\* the values of the PT field with which Page is rendered
SiteValues == {FInt(n) : n \in 1..MaxSite}

\* python values: a dict of numbers, a dict or frame of arrays, or nothing
Unbound == [shape |-> "none", val |-> << >>]
Scalars(v) == [shape |-> "scalars", val |-> v]
Arrays(v) == [shape |-> "arrays", val |-> v]

\* the number of samples the cells are run with here
CellSamples(start, stop) ==
    CHOOSE n \in SampleCounts(start, stop) :
        \A k \in SampleCounts(start, stop) : n <= k

\* Page's ans bound in the module namespace, as the sweep cell's ans is
ans_scope_module(p) == Module

\* ans = {...} inside def Page(): a local name of the running call
ans_scope(p) == p

\* the reads by run p of globals that another run wrote last
Foreign(p, names) ==
    {<<p, writer[g]>> : g \in {n \in names : writer[n] \in Procs \ {p}}}

Wrote(p, name) == [writer EXCEPT ![name] = p]

CallIdle ==
    /\ pc = [p \in Procs |-> "idle"]
    /\ call = [p \in Procs |-> [op |-> "none", args |-> << >>]]
    /\ frames = [s \in Scopes |-> Unbound]
    /\ ret = [p \in Procs |-> Unbound]
    /\ writer = [g \in Globals |-> Module]
    /\ reads = {}

othersUnchanged == UNCHANGED <<pageVars, L0, K_d, raised, sweep_range, kept, schemeVars>>

\* Page() is rendered with v in its PT field
CallPage(p, v) ==
    /\ pc[p] = "idle"
    /\ call' = [call EXCEPT ![p] =
                   [op |-> "Page", args |-> [PT |-> v, kD |-> FInt(InitKD)]]]
    /\ pc' = [pc EXCEPT ![p] = "render"]
    /\ UNCHANGED <<frames, ret, writer, reads, PT_values, df, r, th_P, th_PL>>
    /\ othersUnchanged

\* ans = {k: ld(PT.value, kD.value) for k, ld in lambdas.items()}
PageRender(p) ==
    /\ pc[p] = "render"
    /\ frames' = [frames EXCEPT ![ans_scope(p)] =
                     Scalars(Render(call[p].args.PT, call[p].args.kD))]
    /\ writer' = IF ans_scope(p) = Module THEN Wrote(p, "ans") ELSE writer
    /\ pc' = [pc EXCEPT ![p] = "show"]
    /\ UNCHANGED <<call, ret, reads, PT_values, df, r, th_P, th_PL>>
    /\ othersUnchanged

\* for k, v in ans.items(): solara.Text(f'{k.name}: {v}')
PageShow(p) ==
    /\ pc[p] = "show"
    /\ ret' = [ret EXCEPT ![p] = frames[ans_scope(p)]]
    /\ reads' = IF ans_scope(p) = Module
                 THEN reads \cup Foreign(p, {"ans"}) ELSE reads
    /\ pc' = [pc EXCEPT ![p] = "done"]
    /\ UNCHANGED <<call, frames, writer, PT_values, df, r, th_P, th_PL>>
    /\ othersUnchanged

\* a run of the sweep cell or of the fractions cell starts
CallCell(p, op) ==
    /\ pc[p] = "idle"
    /\ call' = [call EXCEPT ![p] = [op |-> op, args |-> << >>]]
    /\ pc' = [pc EXCEPT ![p] = IF op = "sweep" THEN "PT_values" ELSE "r"]
    /\ UNCHANGED <<frames, ret, writer, reads, PT_values, df, r, th_P, th_PL>>
    /\ othersUnchanged

\* PT_values = np.logspace(-1, 3, endpoint=True, num=100)
SweepValues(p) ==
    /\ pc[p] = "PT_values"
    /\ PT_values' = logspace(SweepStart, SweepStop,
                             CellSamples(SweepStart, SweepStop))
    /\ writer' = Wrote(p, "PT_values")
    /\ pc' = [pc EXCEPT ![p] = "ans"]
    /\ UNCHANGED <<call, frames, ret, reads, df, r, th_P, th_PL>>
    /\ othersUnchanged

\* ans = {k: ld(PT_values, 1) / ld_total(PT_values, 1) for k, ld in ...}
SweepAns(p) ==
    /\ pc[p] = "ans"
    /\ frames' = [frames EXCEPT ![Module] =
                     Arrays([c \in solve_for |-> DataFrame(PT_values)[c]])]
    /\ reads' = reads \cup Foreign(p, {"PT_values"})
    /\ writer' = Wrote(p, "ans")
    /\ pc' = [pc EXCEPT ![p] = "df"]
    /\ UNCHANGED <<call, ret, PT_values, df, r, th_P, th_PL>>
    /\ othersUnchanged

\* df = pd.DataFrame(dict(PT=PT_values) | {k.name: v for k, v in ans.items()});
\* the frame is kept with the shape of the ans it was built from
SweepFrame(p) ==
    /\ pc[p] = "df"
    /\ df' = [shape |-> frames[Module].shape,
              val |-> [c \in {"PT"} \cup solve_for |->
                          IF c = "PT" THEN PT_values ELSE frames[Module].val[c]]]
    /\ reads' = reads \cup Foreign(p, {"PT_values", "ans"})
    /\ writer' = Wrote(p, "df")
    /\ pc' = [pc EXCEPT ![p] = "head"]
    /\ UNCHANGED <<call, frames, ret, PT_values, r, th_P, th_PL>>
    /\ othersUnchanged

\* df.head()
SweepHead(p) ==
    /\ pc[p] = "head"
    /\ ret' = [ret EXCEPT ![p] = df]
    /\ reads' = reads \cup Foreign(p, {"df"})
    /\ pc' = [pc EXCEPT ![p] = "done"]
    /\ UNCHANGED <<call, frames, writer, PT_values, df, r, th_P, th_PL>>
    /\ othersUnchanged

\* r = np.logspace(-2, 2, 100, endpoint=True)
FractionsR(p) ==
    /\ pc[p] = "r"
    /\ r' = logspace(FractionsStart, FractionsStop,
                     CellSamples(FractionsStart, FractionsStop))
    /\ writer' = Wrote(p, "r")
    /\ pc' = [pc EXCEPT ![p] = "th_P"]
    /\ UNCHANGED <<call, frames, ret, reads, PT_values, df, th_P, th_PL>>
    /\ othersUnchanged

\* th_P = 1 / ( r + 1)
FractionsP(p) ==
    /\ pc[p] = "th_P"
    /\ th_P' = [i \in DOMAIN r |-> theta_P(r[i])]
    /\ reads' = reads \cup Foreign(p, {"r"})
    /\ writer' = Wrote(p, "th_P")
    /\ pc' = [pc EXCEPT ![p] = "th_PL"]
    /\ UNCHANGED <<call, frames, ret, PT_values, df, r, th_PL>>
    /\ othersUnchanged

\* th_PL = 1 - th_P
FractionsPL(p) ==
    /\ pc[p] = "th_PL"
    /\ th_PL' = [i \in DOMAIN th_P |-> theta_PL(th_P[i])]
    /\ reads' = reads \cup Foreign(p, {"th_P"})
    /\ writer' = Wrote(p, "th_PL")
    /\ pc' = [pc EXCEPT ![p] = "fig"]
    /\ UNCHANGED <<call, frames, ret, PT_values, df, r, th_P>>
    /\ othersUnchanged

\* the frame of r, th_P and th_PL that the figure is drawn from
FractionsShow(p) ==
    /\ pc[p] = "fig"
    /\ ret' = [ret EXCEPT ![p] =
                  Arrays([c \in {"L0/kd", "P", "PL"} |->
                             IF c = "L0/kd" THEN r
                             ELSE IF c = "P" THEN th_P ELSE th_PL])]
    /\ reads' = reads \cup Foreign(p, {"r", "th_P", "th_PL"})
    /\ pc' = [pc EXCEPT ![p] = "done"]
    /\ UNCHANGED <<call, frames, writer, PT_values, df, r, th_P, th_PL>>
    /\ othersUnchanged

----------------------------------------------------------------------------
(* Specifications.                                                         *)

\* the Page widget, edited any number of times
Init ==
    /\ PageInit
    /\ L0 = << >>
    /\ K_d = FInt(1)
    /\ HeteroIdle
    /\ SweepIdle
    /\ SchemeIdle
    /\ CallIdle

Next ==
    \/ \E v \in InputValues : SetPT(v)
    \/ \E v \in InputValues : SetKD(v)

Spec == Init /\ [][Next]_vars

\* the fractions cell, on any inputs
InitHetero ==
    /\ PageInit
    /\ HeteroInit
    /\ SweepIdle
    /\ SchemeIdle
    /\ CallIdle

NextHetero == Fractions

SpecHetero == InitHetero /\ [][NextHetero]_vars

\* the Page widget with total concentrations far above kD in the PT field
CurveValues == {FInt(50 * n) : n \in 1..MaxCurve}

NextCurve ==
    \/ \E v \in CurveValues : SetPT(v)
    \/ \E v \in InputValues : SetKD(v)

SpecCurve == Init /\ [][NextCurve]_vars

\* Page and the two cells run from several call sites, their statements
\* interleaved in any order
NextCalls ==
    \E p \in Procs :
        \/ \E v \in SiteValues : CallPage(p, v)
        \/ PageRender(p)
        \/ PageShow(p)
        \/ CallCell(p, "sweep")
        \/ SweepValues(p)
        \/ SweepAns(p)
        \/ SweepFrame(p)
        \/ SweepHead(p)
        \/ CallCell(p, "fractions")
        \/ FractionsR(p)
        \/ FractionsP(p)
        \/ FractionsPL(p)
        \/ FractionsShow(p)

SpecCalls == Init /\ [][NextCalls]_vars

\* the molecules of a tube associate and dissociate in any order
InitScheme ==
    /\ PageInit
    /\ L0 = << >>
    /\ K_d = FInt(1)
    /\ HeteroIdle
    /\ SweepIdle
    /\ SchemeInit
    /\ CallIdle

NextScheme == Association \/ Dissociation

SpecScheme == InitScheme /\ [][NextScheme]_vars

\* the two cells, run any number of times in any order, between edits of the
\* Page's kD field
NextSweep ==
    \/ \E range \in SweepRanges :
          \E num \in SampleCounts(range[1], range[2]) :
             Sweep(range[1], range[2], num)
    \/ \E num \in SampleCounts(FractionsStart, FractionsStop) : FractionsCell(num)
    \/ \E v \in SweepEdits : SetKD(v)

SpecSweep == Init /\ [][NextSweep]_vars

----------------------------------------------------------------------------
(* Properties of the dimer solver, on the Page widget (Spec).              *)
Positive(x) == FLt(FInt(0), x)
NonNegative(x) == FLe(FInt(0), x)
IsZero(x) == FEq(x, FInt(0))
IsNaN(x) == x.k = "nan"

\* the rates of the scheme: k_on, with k_off = k_D * k_on
Rates == {FRat(Rat(n, d)) : n \in 1..MaxRate, d \in 1..MaxDen}

C2_SteadyState ==
    (Positive(PT) /\ Positive(kD)) =>
        /\ FEq(FMul(kD, ans["P_2"]), FMul(ans["P_1"], ans["P_1"]))
        /\ \A k_on \in Rates :
              IsZero(NetRate(k_on, FMul(kD, k_on), ans["P_1"], ans["P_2"]))

\* PT = 3, kD = 1/2, k_on = 2, k_off = 1
C2_Witness ==
    /\ PT = FInt(3) /\ kD = FRat(Rat(1, 2))
    /\ Positive(ans["P_2"])
    /\ IsZero(NetRate(FInt(2), FInt(1), ans["P_1"], ans["P_2"]))

\* a pair (m, d) that is a physically valid steady state for (P_T, k_D)
IsValidSteadyState(m, d, P_T, k_D) ==
    /\ NonNegative(m)
    /\ NonNegative(d)
    /\ IsZero(MassBalance(m, d, P_T))
    /\ IsZero(NetRate(FInt(1), k_D, m, d))

\* the dimer concentration the mass balance leaves for a monomer concentration
DimerFor(m, P_T) == FDiv(FSub(P_T, m), FInt(2))

\* the other root of 2*m^2 + k_D*m - k_D*P_T = 0
OtherRoot(P_T, k_D) == sol_P1_negative_root(P_T, k_D)

\* C3: for PT > 0 and kD > 0 the result is a valid steady state; the other
\* root of the quadratic solves the two equations too, is negative and is not
\* the one returned; and of the monomer concentrations tried (the input values
\* and both roots) only the returned one gives a valid steady state.
C3_UniqueRoot ==
    (Positive(PT) /\ Positive(kD)) =>
        LET m == ans["P_1"]
            o == OtherRoot(PT, kD)
        IN  /\ IsValidSteadyState(m, ans["P_2"], PT, kD)
            /\ IsZero(NetRate(FInt(1), kD, o, DimerFor(o, PT)))
            /\ FLt(o, FInt(0))
            /\ ~FEq(o, m)
            /\ \A c \in InputValues \cup {m, o} :
                  IsValidSteadyState(c, DimerFor(c, PT), PT, kD) => FEq(c, m)

\* PT = 3, kD = 1: monomer 1, dimer 1, the other root -3/2
C3_Witness ==
    /\ PT = FInt(3) /\ kD = FInt(1)
    /\ FEq(ans["P_1"], FInt(1)) /\ FEq(ans["P_2"], FInt(1))
    /\ FEq(OtherRoot(PT, kD), FRat(Rat(-3, 2)))

\* x rounds to cents/100 at two decimals
RoundsTo(x, cents) ==
    /\ FLe(FRat(Rat(2 * cents - 1, 200)), x)
    /\ FLt(x, FRat(Rat(2 * cents + 1, 200)))

\* C4 as stated: at PT = 10, kD = 1 the result is monomer 2.70, dimer 3.65.
C4_Stated ==
    (PT = FInt(10) /\ kD = FInt(1)) =>
        /\ RoundsTo(ans["P_1"], 270)
        /\ RoundsTo(ans["P_2"], 365)

\* C4, amended: the Page widget starts with PT = 10, kD = 1, and at these
\* inputs the result is monomer 2 and dimer 4 (2 + 2*4 = 10).
C4_TenToOne ==
    /\ PT = FInt(10) /\ kD = FInt(1)
    /\ [] ((PT = FInt(10) /\ kD = FInt(1)) =>
              /\ FEq(ans["P_1"], FInt(2))
              /\ FEq(ans["P_2"], FInt(4)))

C4_Witness ==
    /\ PT = FInt(InitPT) /\ kD = FInt(InitKD)
    /\ RoundsTo(ans["P_1"], 200)
    /\ RoundsTo(ans["P_2"], 400)

----------------------------------------------------------------------------
(* Properties of the fractions of the smFRET post (SpecHetero).            *)
Computed == r # << >>
Points == 1..NumPoints
Half == FRat(Rat(1, 2))

C7_FractionsSumToOne ==
    Computed =>
        \A i \in Points :
            (Positive(L0[i]) /\ Positive(K_d)) =>
                /\ FEq(FAdd(th_P[i], th_PL[i]), FInt(1))
                /\ Positive(th_P[i]) /\ FLt(th_P[i], FInt(1))
                /\ Positive(th_PL[i]) /\ FLt(th_PL[i], FInt(1))

\* [L0] = 3, Kd = 1: fractions 1/4 and 3/4
C7_Witness ==
    /\ Computed
    /\ L0[1] = FInt(3) /\ K_d = FInt(1)
    /\ FEq(th_P[1], FRat(Rat(1, 4)))
    /\ FEq(th_PL[1], FRat(Rat(3, 4)))

\* C8: for Kd > 0 and ligand concentrations 0 < L1 < L2 the free fraction at
\* L2 is strictly below the free fraction at L1.
C8_FreeFractionDecreases ==
    Computed =>
        \A i, j \in Points :
            (Positive(K_d) /\ Positive(L0[i]) /\ FLt(L0[i], L0[j])) =>
                FLt(th_P[j], th_P[i])

\* Kd = 1, [L0] = 1 then 2: free fractions 1/2 then 1/3
C8_Witness ==
    /\ Computed
    /\ K_d = FInt(1) /\ L0[1] = FInt(1) /\ L0[2] = FInt(2)
    /\ FEq(th_P[1], Half)
    /\ FEq(th_P[2], FRat(Rat(1, 3)))

\* C9: for Kd > 0 and a ligand concentration equal to Kd both fractions are
\* exactly 1/2.
C9_HalfAtKd ==
    Computed =>
        \A i \in Points :
            (Positive(K_d) /\ FEq(L0[i], K_d)) =>
                /\ FEq(th_P[i], Half)
                /\ FEq(th_PL[i], Half)

\* [L0] = Kd = 3/2
C9_Witness ==
    /\ Computed
    /\ K_d = FRat(Rat(3, 2)) /\ L0[1] = K_d
    /\ FEq(th_P[1], Half) /\ FEq(th_PL[1], Half)

\* C10: for a ligand concentration > 0 and Kd > 0, Kd is recovered from the
\* fractions and the ligand concentration: Kd = (th_P / th_PL) * [L0].
C10_KdRecovered ==
    Computed =>
        \A i \in Points :
            (Positive(L0[i]) /\ Positive(K_d)) =>
                FEq(FMul(FDiv(th_P[i], th_PL[i]), L0[i]), K_d)

\* [L0] = 1/2, Kd = 3: fractions 6/7 and 1/7, and 6 * 1/2 = 3
C10_Witness ==
    /\ Computed
    /\ L0[1] = Half /\ K_d = FInt(3)
    /\ FEq(th_P[1], FRat(Rat(6, 7)))
    /\ FEq(FMul(FDiv(th_P[1], th_PL[1]), L0[1]), FInt(3))

----------------------------------------------------------------------------
(* Properties of the sweep cells (SpecSweep).                              *)
Swept == df # << >>
Samples == DOMAIN PT_values

\* xs has num samples, strictly ascending, with a constant ratio between
\* neighbours, from 10^start to 10^stop
IsLogSpaced(xs, start, stop, num) ==
    /\ Len(xs) = num
    /\ \A i \in 1..(num - 1) : FLt(xs[i], xs[i + 1])
    /\ \A i \in 1..(num - 2) :
          FEq(FDiv(xs[i + 1], xs[i]), FDiv(xs[i + 2], xs[i + 1]))
    /\ FEq(xs[1], FRat(Pow10(start)))
    /\ FEq(xs[num], FRat(Pow10(stop)))

\* the concentrations the solver returns at sample i of the sweep
MonomerAt(i) == lambdas("P_1", PT_values[i], FInt(SweepKD))
DimerAt(i) == lambdas("P_2", PT_values[i], FInt(SweepKD))

\* C11: a sweep holds exactly num samples, strictly ascending and log-spaced
\* (constant ratio), the first at 10^start times the dissociation constant
\* and the last at 10^stop times it, and each sample is the solver's valid
\* steady state at its x, shown as fractions; the same for the r of the
\* fractions cell and its th_P, th_PL.
C11_LogSpacedSamples ==
    /\ Swept =>
          /\ df["PT"] = PT_values
          /\ IsLogSpaced(df["PT"], sweep_range.start, sweep_range.stop,
                         sweep_range.num)
          /\ FEq(df["PT"][1],
                 FMul(FRat(Pow10(sweep_range.start)), FInt(SweepKD)))
          /\ FEq(df["PT"][sweep_range.num],
                 FMul(FRat(Pow10(sweep_range.stop)), FInt(SweepKD)))
          /\ \A s \in solve_for : Len(df[s]) = sweep_range.num
          /\ \A i \in Samples :
                LET total == FAdd(MonomerAt(i), DimerAt(i))
                IN  IsValidSteadyState(FMul(df["P_1"][i], total),
                                       FMul(df["P_2"][i], total),
                                       df["PT"][i], FInt(SweepKD))
    /\ Computed =>
          /\ IsLogSpaced(r, FractionsStart, FractionsStop, Len(r))
          /\ Len(th_P) = Len(r) /\ Len(th_PL) = Len(r)
          /\ \A i \in DOMAIN r :
                /\ FEq(FMul(th_P[i], FAdd(r[i], FInt(1))), FInt(1))
                /\ FEq(FAdd(th_P[i], th_PL[i]), FInt(1))

\* both cells have run with five samples: 0.1, 1, 10, 100, 1000 and
\* 0.01, 0.1, 1, 10, 100
C11_Witness ==
    /\ Swept /\ sweep_range = [start |-> -1, stop |-> 3, num |-> 5]
    /\ FEq(PT_values[2], FInt(1)) /\ FEq(PT_values[4], FInt(100))
    /\ Len(r) = 5 /\ FEq(r[3], FInt(1))

C13_FractionsOfMolarity ==
    Swept =>
        \A i \in Samples :
            LET total == FAdd(MonomerAt(i), DimerAt(i))
            IN  /\ FEq(df["P_1"][i], FDiv(MonomerAt(i), total))
                /\ FEq(df["P_2"][i], FDiv(DimerAt(i), total))
                /\ \A s \in solve_for :
                      FLe(FInt(0), df[s][i]) /\ FLe(df[s][i], FInt(1))
                /\ FEq(FAdd(df["P_1"][i], df["P_2"][i]), FInt(1))

\* the sample at PT = 10: monomer 2 of 6, dimer 4 of 6
C13_Witness ==
    /\ Swept /\ sweep_range = [start |-> -1, stop |-> 3, num |-> 5]
    /\ FEq(df["PT"][3], FInt(10))
    /\ FEq(df["P_1"][3], FRat(Rat(1, 3)))
    /\ FEq(df["P_2"][3], FRat(Rat(2, 3)))

\* the total protomer of sample i, which the mass balance keeps constant
ProtomerAt(i) == FAdd(MonomerAt(i), FMul(FInt(2), DimerAt(i)))

\* C14 as stated: the denominator of every fraction of the sweep is the
\* conserved pool, total protomer = monomer + 2*dimer.
C14_Stated ==
    Swept =>
        \A i \in Samples :
            /\ FEq(df["P_1"][i], FDiv(MonomerAt(i), ProtomerAt(i)))
            /\ FEq(df["P_2"][i], FDiv(DimerAt(i), ProtomerAt(i)))

\* C14, amended: the denominator of every fraction of the sweep is the total
\* molarity monomer + dimer; the conserved pool monomer + 2*dimer equals the
\* sample's PT and is larger than that denominator.
C14_TotalMolarity ==
    Swept =>
        \A i \in Samples :
            LET molarity == FAdd(MonomerAt(i), DimerAt(i))
            IN  /\ FEq(ld_total(PT_values[i], FInt(SweepKD)), molarity)
                /\ FEq(FMul(df["P_1"][i], molarity), MonomerAt(i))
                /\ FEq(FMul(df["P_2"][i], molarity), DimerAt(i))
                /\ FEq(ProtomerAt(i), df["PT"][i])
                /\ FLt(molarity, ProtomerAt(i))

\* the sample at PT = 1: monomer 1/2, dimer 1/4, molarity 3/4, protomer 1
C14_Witness ==
    /\ Swept /\ sweep_range = [start |-> -1, stop |-> 3, num |-> 5]
    /\ FEq(df["PT"][2], FInt(1))
    /\ FEq(FAdd(MonomerAt(2), DimerAt(2)), FRat(Rat(3, 4)))
    /\ FEq(ProtomerAt(2), FInt(1))
    /\ FEq(df["P_1"][2], FRat(Rat(2, 3)))

\* x rounds to mils/1000 at three decimals
RoundsTo3(x, mils) ==
    /\ FLe(FRat(Rat(2 * mils - 1, 2000)), x)
    /\ FLt(x, FRat(Rat(2 * mils + 1, 2000)))

\* C15: the sweep from 0.1 to 1000 at kD = 1 starts with monomer fraction
\* 0.921 and dimer fraction 0.079 (at PT = 0.1) and ends with dimer fraction
\* 0.957 (at PT = 1000), at three decimals.
C15_EndPoints ==
    (Swept /\ sweep_range.start = SweepStart /\ sweep_range.stop = SweepStop) =>
        LET last == sweep_range.num
        IN  /\ FEq(df["PT"][1], FRat(Rat(1, 10)))
            /\ RoundsTo3(df["P_1"][1], 921)
            /\ RoundsTo3(df["P_2"][1], 79)
            /\ FEq(df["PT"][last], FInt(1000))
            /\ RoundsTo3(df["P_2"][last], 957)

\* the sweep from 0.1 to 1000 has run: its first and last rows
C15_Witness ==
    /\ Swept /\ sweep_range = [start |-> SweepStart, stop |-> SweepStop, num |-> 3]
    /\ FEq(df["PT"][1], FRat(Rat(1, 10))) /\ FEq(df["PT"][3], FInt(1000))
    /\ FLt(FRat(Rat(92, 100)), df["P_1"][1])
    /\ FLt(FRat(Rat(95, 100)), df["P_2"][3])

----------------------------------------------------------------------------
(* Properties of the dimerization curve, on the Page widget (Spec).        *)
Times(n, x) == FMul(FInt(n), x)

\* the fraction of species s among the molecules of the result
FractionOf(s) == FDiv(ans[s], FAdd(ans["P_1"], ans["P_2"]))

\* C16: for every kD > 0, at PT = kD the monomer concentration is twice the
\* dimer concentration; at PT = 3*kD the two are equal (dimer fraction 1/2);
\* at PT = 10*kD the monomer is one out of three molecules.
C16_ReferencePoints ==
    Positive(kD) =>
        /\ FEq(PT, kD) => FEq(ans["P_1"], Times(2, ans["P_2"]))
        /\ FEq(PT, Times(3, kD)) =>
              /\ FEq(ans["P_1"], ans["P_2"])
              /\ FEq(FractionOf("P_2"), FRat(Rat(1, 2)))
        /\ FEq(PT, Times(10, kD)) => FEq(FractionOf("P_1"), FRat(Rat(1, 3)))

\* kD = 1/2 and PT = 5 = 10*kD: monomer 1, dimer 2
C16_Witness ==
    /\ FEq(kD, FRat(Rat(1, 2))) /\ FEq(PT, Times(10, kD))
    /\ FEq(ans["P_1"], FInt(1)) /\ FEq(ans["P_2"], FInt(2))

\* C17: for every kD > 0 and every PT with 0 < PT <= 500*kD the dimer
\* fraction dimer/(monomer + dimer) of the result is strictly below 0.95.
C17_BelowSaturation ==
    (Positive(kD) /\ Positive(PT) /\ FLe(PT, Times(500, kD))) =>
        FLt(FractionOf("P_2"), FRat(Rat(95, 100)))

\* PT = 500 = 500*kD: the dimer fraction lies between 0.93 and 0.95
C17_Witness ==
    /\ FEq(kD, FInt(1)) /\ FEq(PT, Times(500, kD))
    /\ FLt(FRat(Rat(93, 100)), FractionOf("P_2"))
    /\ FLt(FractionOf("P_2"), FRat(Rat(95, 100)))

\* the monomer concentrations tried as steady states: the returned one, the
\* other root of the quadratic, and none, all and half of the protomer
Candidates == {ans["P_1"], OtherRoot(PT, kD), FInt(0), PT, FDiv(PT, FInt(2))}

\* m monomer with the dimer the mass balance leaves is a steady state of the
\* scheme run with the rates k_on and k_off
IsSteadyFor(k_on, k_off, m) ==
    /\ NonNegative(m)
    /\ NonNegative(DimerFor(m, PT))
    /\ IsZero(NetRate(k_on, k_off, m, DimerFor(m, PT)))

\* C18: two pairs of rates (k_on, k_off) with the same ratio k_off/k_on = kD
\* have the same steady states at the same PT, and that steady state is the
\* returned (monomer, dimer), whatever the rates.
C18_OnlyTheRatio ==
    (Positive(PT) /\ Positive(kD)) =>
        /\ \A k_on \in Rates, k_on2 \in Rates :
              \A m \in Candidates :
                  IsSteadyFor(k_on, FMul(kD, k_on), m)
                      <=> IsSteadyFor(k_on2, FMul(kD, k_on2), m)
        /\ \A k_on \in Rates :
              /\ \A m \in Candidates :
                    IsSteadyFor(k_on, FMul(kD, k_on), m) <=> FEq(m, ans["P_1"])
              /\ FEq(ans["P_2"], DimerFor(ans["P_1"], PT))

\* PT = 6, kD = 2: monomer 2, dimer 2 both for k_on = 1, k_off = 2 and for
\* k_on = 1/2, k_off = 1
C18_Witness ==
    /\ FEq(PT, FInt(6)) /\ FEq(kD, FInt(2))
    /\ IsSteadyFor(FInt(1), FInt(2), ans["P_1"])
    /\ IsSteadyFor(FRat(Rat(1, 2)), FInt(1), ans["P_1"])
    /\ FEq(ans["P_1"], FInt(2)) /\ FEq(ans["P_2"], FInt(2))

----------------------------------------------------------------------------
(* Properties of the kinetic scheme (SpecScheme).                          *)

\* C19: after any sequence of association and dissociation events the total
\* protomer P1 + 2*P2 equals its initial value, and in every event the number
\* of dimers changes by half of what the number of monomers changes by, in
\* the opposite direction.
C19_ProtomerConserved ==
    /\ [](n_P1 + 2 * n_P2 = n_PT)
    /\ [][n_P1' - n_P1 = -2 * (n_P2' - n_P2)]_vars

\* more dimers than the tube was filled with, next to monomers left over:
\* associations have happened
C19_Witness ==
    /\ n_P2 > MaxDimers
    /\ n_P1 > 0
    /\ n_P1 + 2 * n_P2 = n_PT

----------------------------------------------------------------------------
(* Properties of concurrent runs (SpecCalls).                              *)

\* what run p displays when nothing else runs
Alone(p) ==
    IF call[p].op = "Page"
    THEN Scalars(Render(call[p].args.PT, call[p].args.kD))
    ELSE IF call[p].op = "sweep"
    THEN Arrays(DataFrame(logspace(SweepStart, SweepStop,
                                   CellSamples(SweepStart, SweepStop))))
    ELSE LET xs == logspace(FractionsStart, FractionsStop,
                            CellSamples(FractionsStart, FractionsStop))
         IN  Arrays([c \in {"L0/kd", "P", "PL"} |->
                        IF c = "L0/kd" THEN xs
                        ELSE IF c = "P" THEN [i \in DOMAIN xs |-> theta_P(xs[i])]
                        ELSE [i \in DOMAIN xs |-> theta_PL(theta_P(xs[i]))]])

Same(x, y) == x.shape = y.shape /\ x.val = y.val

\* every run that has ended displayed what it displays when run alone
OwnResults == \A p \in Procs : pc[p] = "done" => Same(ret[p], Alone(p))

----------------------------------------------------------------------------
(* Further properties of the Page widget (Spec).                           *)

\* the display is the solver's result for the values now in the two fields
ShowsCurrent ==
    \A s \in solve_for :
        \/ FEq(ans[s], lambdas(s, PT, kD))
        \/ IsNaN(ans[s]) /\ IsNaN(lambdas(s, PT, kD))

\* C21: after any sequence of edits from PT = 10, kD = 1 the displayed P_1
\* and P_2 are the solver's result for the current field values, whatever
\* the earlier values were; an edit of one field leaves the other field
\* unchanged; and back at PT = 10, kD = 1 the display is again the first one,
\* monomer 2 and dimer 4.
C21_FreshOnEachRender ==
    /\ [] ShowsCurrent
    /\ [] ((FEq(PT, FInt(InitPT)) /\ FEq(kD, FInt(InitKD))) =>
              FEq(ans["P_1"], FInt(2)) /\ FEq(ans["P_2"], FInt(4)))
    /\ [][(PT' # PT => kD' = kD) /\ (kD' # kD => PT' = PT)]_vars

\* both fields have been edited, to PT = 3/2 and kD = 1/2: monomer 1/2,
\* dimer 1/2
C21_Witness ==
    /\ FEq(PT, FRat(Rat(3, 2))) /\ FEq(kD, FRat(Rat(1, 2)))
    /\ FEq(ans["P_1"], FRat(Rat(1, 2))) /\ FEq(ans["P_2"], FRat(Rat(1, 2)))
    /\ ShowsCurrent

\* the factors the two inputs are scaled by
Scales == {c \in InputValues : Positive(c)}

\* the fraction of species s the sweep computes at the ratio x, with kD = 1
SweepFraction(s, x) == FDiv(lambdas(s, x, sweep_kD), ld_total(x, sweep_kD))

\* C22: for PT > 0, kD > 0 and every c > 0 the solver gives at (c*PT, c*kD)
\* c times the monomer and c times the dimer it gives at (PT, kD); hence the
\* fractions are those the sweep computes at x = PT/kD with kD = 1.
C22_ScaleInvariant ==
    (Positive(PT) /\ Positive(kD)) =>
        \A s \in solve_for :
            /\ \A c \in Scales :
                  FEq(lambdas(s, FMul(c, PT), FMul(c, kD)), FMul(c, ans[s]))
            /\ FEq(SweepFraction(s, FDiv(PT, kD)), FractionOf(s))

\* PT = 3/2, kD = 1/2 gives monomer 1/2; four times the inputs, PT = 6 and
\* kD = 2, give monomer 2; the ratio is 3, where the sweep has fraction 1/2
C22_Witness ==
    /\ FEq(PT, FRat(Rat(3, 2))) /\ FEq(kD, FRat(Rat(1, 2)))
    /\ FInt(4) \in Scales
    /\ FEq(lambdas("P_1", FMul(FInt(4), PT), FMul(FInt(4), kD)), FInt(2))
    /\ FEq(FMul(FInt(4), ans["P_1"]), FInt(2))
    /\ FEq(SweepFraction("P_1", FInt(3)), FRat(Rat(1, 2)))

\* the fraction of species s among the molecules of a displayed result
Fraction(a, s) == FDiv(a[s], FAdd(a["P_1"], a["P_2"]))

\* C23: at a fixed kD > 0, whenever the total concentration goes from a
\* positive PT1 to a larger PT2 the monomer fraction becomes strictly smaller
\* and the dimer fraction strictly larger, and for every positive PT the
\* dimer fraction is strictly below 1.
C23_Monotone ==
    /\ [] ((Positive(PT) /\ Positive(kD)) =>
              FLt(Fraction(ans, "P_2"), FInt(1)))
    /\ [][(Positive(PT) /\ Positive(kD) /\ kD' = kD /\ FLt(PT, PT')) =>
              /\ FLt(Fraction(ans', "P_1"), Fraction(ans, "P_1"))
              /\ FLt(Fraction(ans, "P_2"), Fraction(ans', "P_2"))]_vars

\* kD = 1 and PT = 3: the monomer fraction 1/2 is below the 2/3 of PT = 1
\* and above the 1/3 of PT = 10
C23_Witness ==
    /\ FEq(kD, FInt(1)) /\ FEq(PT, FInt(3))
    /\ FEq(Fraction(ans, "P_1"), FRat(Rat(1, 2)))
    /\ FLt(Fraction(ans, "P_1"), SweepFraction("P_1", FInt(1)))
    /\ FLt(SweepFraction("P_1", FInt(10)), Fraction(ans, "P_1"))
    /\ FLt(Fraction(ans, "P_2"), FInt(1))

====
